---- MODULE Spec2Model ----
(***************************************************************************)
(* Model of client/src/components/ui/SearchDropdown.tsx: the search        *)
(* overlay's component state, its three effects, the debounce timer kept   *)
(* in the JS runtime, and the fetch cycles (two Axios lookups joined by    *)
(* Promise.all) that the timer callback starts; the escape-key listener    *)
(* on the document, the calls made to the owner's close callback and to    *)
(* the router, and the rendered result area.                               *)
(*                                                                         *)
(* Strings typed by the user are sequences of one-character strings, so    *)
(* that trim() and encodeURIComponent() are computed, not assumed.         *)
(***************************************************************************)
EXTENDS Integers, Sequences, FiniteSets, TLC

VARIABLES mounted, open, query, loading, results, error,
          debounceTimeout, timers, cycles,
          onClose,    \* the close callback the owner passes as a prop
          listeners,  \* keydown listeners on the document: the onClose each captured
          calls       \* calls to onClose / navigate made by the step just taken

vars == <<mounted, open, query, loading, results, error,
          debounceTimeout, timers, cycles, onClose, listeners, calls>>

(* ----------------------------- bounds --------------------------------- *)
MaxCycles == 2
TickStep == 175

(* ------------------------- program constants -------------------------- *)
DebounceDelay == 350
ProductLimit == 10
NoHandle == 0
SearchFailed == "Search failed."
CategoryPath == "/api/category/search"
ProductPath == "/api/product/search"

(* ------------------------------ inputs -------------------------------- *)
Whitespace == {" "}

\* close callbacks the owner may pass
Callbacks == {"close1", "close2"}

\* keys pressed while the document has focus
Keys == {"Escape", "Enter"}

\* values the input box is set to
Queries == {<<>>, <<" ">>, <<"a">>, <<" ", "b">>}

Nil == [nil |-> TRUE, v |-> <<>>]

Some(list) == [nil |-> FALSE, v |-> list]

\* body of a category response: { data: CategorySummary[] | undefined }
CategoryBodies == {[data |-> Nil], [data |-> Some(<<"shoes">>)]}

\* body of a product response: { data: { products: ProductSummary[] } | undefined }
ProductBodies ==
  {[data |-> [nil |-> FALSE, products |-> Nil]],
   [data |-> [nil |-> FALSE, products |-> Some(<<"sneaker-42">>)]]}

(* ------------------------- pure functions ----------------------------- *)
RECURSIVE TrimStart(_)
TrimStart(s) ==
  IF s = <<>> THEN <<>>
  ELSE IF Head(s) \in Whitespace THEN TrimStart(Tail(s)) ELSE s

RECURSIVE TrimEnd(_)
TrimEnd(s) ==
  IF s = <<>> THEN <<>>
  ELSE IF s[Len(s)] \in Whitespace THEN TrimEnd(SubSeq(s, 1, Len(s) - 1)) ELSE s

Trim_None(s) == s

\* String.prototype.trim
Trim(s) == TrimEnd(TrimStart(s))

RECURSIVE encodeURIComponent(_)
encodeURIComponent(s) ==
  IF s = <<>> THEN <<>>
  ELSE (IF Head(s) = " " THEN <<"%", "2", "0">> ELSE <<Head(s)>>)
       \o encodeURIComponent(Tail(s))

CategoryUrl(q) == [path |-> CategoryPath, q |-> encodeURIComponent(q)]

ProductUrl_DoubleLimit(q) ==
  [path |-> ProductPath, q |-> encodeURIComponent(q), limit |-> 2 * ProductLimit]

ProductUrl(q) == [path |-> ProductPath, q |-> encodeURIComponent(q), limit |-> ProductLimit]

EmptyResults == [categories |-> <<>>, products |-> <<>>]

\* catRes.data.data || []
CategoriesOf(body) == IF body.data.nil THEN <<>> ELSE body.data.v

\* prodRes.data.data?.products || []
ProductsOf(body) ==
  IF body.data.nil THEN <<>>
  ELSE IF body.data.products.nil THEN <<>> ELSE body.data.products.v

(* --------------------------- JS timers -------------------------------- *)
clearTimeout_NoOp(ts, h) == ts

clearTimeout(ts, h) == {t \in ts : t.id # h}

\* the handle setTimeout returns: the JS runtime never hands out the handle
\* of a timer that is still pending; handles are opaque to the component,
\* so the least one that is neither pending nor still held in the ref
\* stands for "a fresh handle"
FreshHandle(ts, ref) ==
  LET free == {h \in 1..(Cardinality(ts) + 2) : h # ref /\ \A t \in ts : t.id # h}
  IN CHOOSE h \in free : \A g \in free : h <= g

setTimeout(ts, id, q) == ts \cup {[id |-> id, q |-> q, elapsed |-> 0]}

Min(a, b) == IF a < b THEN a ELSE b

(* ------------------------ fetch-cycle records ------------------------- *)
PendingCat == [st |-> "pending", body |-> [data |-> Nil]]

PendingProd == [st |-> "pending", body |-> [data |-> [nil |-> TRUE, products |-> Nil]]]

NewCycle(q) ==
  [catUrl |-> CategoryUrl(q), prodUrl |-> ProductUrl(q),
   cat |-> PendingCat, prod |-> PendingProd, outcome |-> "pending"]

(* ------------------------------ effects ------------------------------- *)
View == [query |-> query, loading |-> loading, results |-> results, error |-> error,
         timers |-> timers, debounceTimeout |-> debounceTimeout]

DebounceCleanup_None(st) == st

\* cleanup returned by the debounce effect
DebounceCleanup(st) ==
  IF st.debounceTimeout # NoHandle
  THEN [st EXCEPT !.timers = clearTimeout(st.timers, st.debounceTimeout)]
  ELSE st

\* body of the debounce effect, run for the query value st.query
DebounceEffect(st) ==
  IF Trim(st.query) = <<>>
  THEN [st EXCEPT !.results = EmptyResults, !.error = ""]
  ELSE LET cleared == IF st.debounceTimeout # NoHandle
                       THEN clearTimeout(st.timers, st.debounceTimeout)
                       ELSE st.timers
            handle == FreshHandle(cleared, st.debounceTimeout)
       IN [st EXCEPT
             !.loading = TRUE,
             !.error = "",
             !.timers = setTimeout(cleared, handle, st.query),
             !.debounceTimeout = handle]

\* a render in which query changed from old to st.query: cleanup of the
\* previous run (only a non-blank run returned one), then the effect
QueryChanged(old, st) ==
  IF old = st.query THEN st
  ELSE DebounceEffect(IF Trim(old) # <<>> THEN DebounceCleanup(st) ELSE st)

OpenEffect_KeepError(st) == [st EXCEPT !.query = <<>>, !.results = EmptyResults]

OpenEffect_KeepQuery(st) == [st EXCEPT !.results = EmptyResults, !.error = ""]

\* the [open] effect in a render where open is false
OpenEffect(st) == [st EXCEPT !.query = <<>>, !.results = EmptyResults, !.error = ""]

RemoveOne(ls, cb) ==
  IF \E k \in 1..Len(ls) : ls[k] = cb
  THEN LET k == CHOOSE k \in 1..Len(ls) : ls[k] = cb
       IN SubSeq(ls, 1, k - 1) \o SubSeq(ls, k + 1, Len(ls))
  ELSE ls

EscapeCleanup_Leak(ls, wasOpen, cb) == ls

\* cleanup of the escape effect run that rendered (wasOpen, cb): it removes
\* the handleEscape it added, if it added one
EscapeCleanup(ls, wasOpen, cb) == IF wasOpen THEN RemoveOne(ls, cb) ELSE ls

\* body of the escape effect in a render with (isOpen, cb)
EscapeEffect(ls, isOpen, cb) == IF ~isOpen THEN ls ELSE Append(ls, cb)

\* a render in which open or onClose changed
EscapeChanged(ls, wasOpen, oldCb, isOpen, cb) ==
  EscapeEffect(EscapeCleanup(ls, wasOpen, oldCb), isOpen, cb)

CloseCall(cb) == [fn |-> "onClose", cb |-> cb, path |-> ""]

NavigateCall(path) == [fn |-> "navigate", cb |-> "", path |-> path]

\* handleEscape of a listener that captured cb
handleEscape(key, cb) == IF key = "Escape" THEN <<CloseCall(cb)>> ELSE <<>>

\* the document dispatches a keydown to its listeners in order
RECURSIVE Dispatch(_, _)
Dispatch(ls, key) ==
  IF ls = <<>> THEN <<>> ELSE handleEscape(key, Head(ls)) \o Dispatch(Tail(ls), key)

handleResultClick_NavigateFirst(type, slug, cb) ==
  <<NavigateCall(IF type = "category" THEN "/category/" \o slug ELSE "/product/" \o slug),
    CloseCall(cb)>>

handleResultClick(type, slug, cb) ==
  <<CloseCall(cb),
    NavigateCall(IF type = "category" THEN "/category/" \o slug ELSE "/product/" \o slug)>>

Render_GroupsIgnoreError(q, l, e, r) ==
  LET area == q # <<>>
      groups == area /\ ~l
  IN [area |-> area,
      spinner |-> area /\ l,
      errorText |-> IF area /\ ~l /\ e # "" THEN e ELSE "",
      categoryRows |-> IF groups /\ Len(r.categories) > 0 THEN r.categories ELSE <<>>,
      productRows |-> IF groups /\ Len(r.products) > 0 THEN r.products ELSE <<>>,
      categoriesGroup |-> groups /\ Len(r.categories) > 0,
      productsGroup |-> groups /\ Len(r.products) > 0,
      noResults |-> groups /\ Len(r.categories) = 0 /\ Len(r.products) = 0 /\ q # <<>>,
      noResultsFor |-> IF groups /\ Len(r.categories) = 0 /\ Len(r.products) = 0 /\ q # <<>>
                       THEN q ELSE <<>>]

\* the result area of the JSX, for an open overlay
Render(q, l, e, r) ==
  LET area == q # <<>>
      groups == area /\ ~l /\ e = ""
  IN [area |-> area,
      spinner |-> area /\ l,
      errorText |-> IF area /\ ~l /\ e # "" THEN e ELSE "",
      categoryRows |-> IF groups /\ Len(r.categories) > 0 THEN r.categories ELSE <<>>,
      productRows |-> IF groups /\ Len(r.products) > 0 THEN r.products ELSE <<>>,
      categoriesGroup |-> groups /\ Len(r.categories) > 0,
      productsGroup |-> groups /\ Len(r.products) > 0,
      noResults |-> groups /\ Len(r.categories) = 0 /\ Len(r.products) = 0 /\ q # <<>>,
      noResultsFor |-> IF groups /\ Len(r.categories) = 0 /\ Len(r.products) = 0 /\ q # <<>>
                       THEN q ELSE <<>>]

Rows(type, view) == IF type = "category" THEN view.categoryRows ELSE view.productRows

Commit(st) ==
  /\ query' = st.query
  /\ loading' = st.loading
  /\ results' = st.results
  /\ error' = st.error
  /\ timers' = st.timers
  /\ debounceTimeout' = st.debounceTimeout

(* ------------------------------ Init ---------------------------------- *)
Init ==
  /\ mounted = TRUE
  /\ open \in BOOLEAN
  /\ query = <<>>
  /\ loading = FALSE
  /\ results = EmptyResults
  /\ error = ""
  /\ debounceTimeout = NoHandle
  /\ timers = {}
  /\ cycles = <<>>
  /\ onClose = "close1"
  /\ listeners = EscapeEffect(<<>>, open, onClose)
  /\ calls = <<>>

(* ----------------------------- actions -------------------------------- *)
\* owner sets open to true
Open ==
  /\ mounted /\ ~open
  /\ open' = TRUE
  /\ listeners' = EscapeChanged(listeners, open, onClose, TRUE, onClose)
  /\ calls' = <<>>
  /\ UNCHANGED <<mounted, query, loading, results, error,
                 debounceTimeout, timers, cycles, onClose>>

\* owner sets open to false
Close ==
  /\ mounted /\ open
  /\ open' = FALSE
  /\ Commit(QueryChanged(query, OpenEffect(View)))
  /\ listeners' = EscapeChanged(listeners, open, onClose, FALSE, onClose)
  /\ calls' = <<>>
  /\ UNCHANGED <<mounted, cycles, onClose>>

\* input onChange
SetQuery(q) ==
  /\ mounted /\ open
  /\ q # query
  /\ Trim(q) # <<>> => Len(cycles) < MaxCycles
  /\ Commit(QueryChanged(query, [View EXCEPT !.query = q]))
  /\ calls' = <<>>
  /\ UNCHANGED <<mounted, open, cycles, onClose, listeners>>

\* time passes while a timer is not yet due
Tick ==
  /\ \E t \in timers : t.elapsed < DebounceDelay
  /\ timers' = {[t EXCEPT !.elapsed = Min(t.elapsed + TickStep, DebounceDelay)] : t \in timers}
  /\ calls' = <<>>
  /\ UNCHANGED <<mounted, open, query, loading, results, error,
                 debounceTimeout, cycles, onClose, listeners>>

\* the setTimeout callback starts: both Axios.get calls are issued
TimerFires(t) ==
  /\ t \in timers
  /\ t.elapsed >= DebounceDelay
  /\ Len(cycles) < MaxCycles
  /\ timers' = timers \ {t}
  /\ cycles' = Append(cycles, NewCycle(t.q))
  /\ calls' = <<>>
  /\ UNCHANGED <<mounted, open, query, loading, results, error,
                 debounceTimeout, onClose, listeners>>

SettleFail_Clear(st) ==
  [st EXCEPT !.results = EmptyResults, !.error = SearchFailed, !.loading = FALSE]

\* catch + finally
SettleFail(st) == [st EXCEPT !.error = SearchFailed, !.loading = FALSE]

SettleOk_Merge(st, catBody, prodBody) ==
  [st EXCEPT !.results = [categories |-> st.results.categories \o CategoriesOf(catBody),
                          products |-> st.results.products \o ProductsOf(prodBody)],
             !.loading = FALSE]

SettleOk_KeepResults(st, catBody, prodBody) == [st EXCEPT !.loading = FALSE]

\* setResults + finally
SettleOk(st, catBody, prodBody) ==
  [st EXCEPT !.results = [categories |-> CategoriesOf(catBody),
                          products |-> ProductsOf(prodBody)],
             !.loading = FALSE]

DroppedCat == [st |-> "dropped", body |-> PendingCat.body]

DroppedProd == [st |-> "dropped", body |-> PendingProd.body]

Join_Any(c) ==
  IF c.outcome # "pending" THEN c
  ELSE IF c.cat.st = "fail" THEN [c EXCEPT !.outcome = "fail", !.prod = DroppedProd]
  ELSE IF c.prod.st = "fail" THEN [c EXCEPT !.outcome = "fail", !.cat = DroppedCat]
  ELSE IF c.cat.st = "ok" \/ c.prod.st = "ok" THEN [c EXCEPT !.outcome = "ok"]
  ELSE c

\* Promise.all over the two lookups of cycle c, after one of them changed:
\* it rejects with the first rejection, and from then on nothing observes
\* the other lookup (its value, or a response still to come, is dropped)
Join(c) ==
  IF c.outcome # "pending" THEN c
  ELSE IF c.cat.st = "fail" THEN [c EXCEPT !.outcome = "fail", !.prod = DroppedProd]
  ELSE IF c.prod.st = "fail" THEN [c EXCEPT !.outcome = "fail", !.cat = DroppedCat]
  ELSE IF c.cat.st = "ok" /\ c.prod.st = "ok" THEN [c EXCEPT !.outcome = "ok"]
  ELSE c

Continue_DiscardStale(before, after) ==
  IF /\ before.outcome = "pending" /\ after.outcome # "pending" /\ mounted
     /\ after.catUrl.q = encodeURIComponent(query)
  THEN IF after.outcome = "ok"
       THEN Commit(SettleOk(View, after.cat.body, after.prod.body))
       ELSE Commit(SettleFail(View))
  ELSE UNCHANGED <<query, loading, results, error, timers, debounceTimeout>>

\* state updates of the timer callback once Promise.all of cycle `after`
\* has settled; a state update of an unmounted component is dropped
Continue(before, after) ==
  IF before.outcome = "pending" /\ after.outcome # "pending" /\ mounted
  THEN IF after.outcome = "ok"
       THEN Commit(SettleOk(View, after.cat.body, after.prod.body))
       ELSE Commit(SettleFail(View))
  ELSE UNCHANGED <<query, loading, results, error, timers, debounceTimeout>>

CategoryResponds(i, ok, body) ==
  /\ i \in 1..Len(cycles)
  /\ cycles[i].cat.st = "pending"
  /\ LET c == [cycles[i] EXCEPT !.cat = IF ok THEN [st |-> "ok", body |-> body]
                                         ELSE [st |-> "fail", body |-> PendingCat.body]]
         d == Join(c)
     IN /\ cycles' = [cycles EXCEPT ![i] = d]
        /\ Continue(cycles[i], d)
  /\ calls' = <<>>
  /\ UNCHANGED <<mounted, open, onClose, listeners>>

ProductResponds(i, ok, body) ==
  /\ i \in 1..Len(cycles)
  /\ cycles[i].prod.st = "pending"
  /\ LET c == [cycles[i] EXCEPT !.prod = IF ok THEN [st |-> "ok", body |-> body]
                                          ELSE [st |-> "fail", body |-> PendingProd.body]]
         d == Join(c)
     IN /\ cycles' = [cycles EXCEPT ![i] = d]
        /\ Continue(cycles[i], d)
  /\ calls' = <<>>
  /\ UNCHANGED <<mounted, open, onClose, listeners>>

\* the component is removed: effect cleanups run, and React discards the
\* useState values of the instance (they read as after construction); the
\* ref object, captured by the closures, keeps its value
Unmount ==
  /\ mounted
  /\ mounted' = FALSE
  /\ timers' = (IF Trim(query) # <<>> THEN DebounceCleanup(View) ELSE View).timers
  /\ query' = <<>>
  /\ loading' = FALSE
  /\ results' = EmptyResults
  /\ error' = ""
  /\ listeners' = EscapeCleanup(listeners, open, onClose)
  /\ calls' = <<>>
  /\ UNCHANGED <<open, debounceTimeout, cycles, onClose>>

UiFrame ==
  UNCHANGED <<mounted, open, query, loading, results, error,
              debounceTimeout, timers, cycles, onClose, listeners>>

\* a key is pressed: the document runs every keydown listener attached
KeyDown(key) ==
  /\ mounted
  /\ calls' = Dispatch(listeners, key)
  /\ UiFrame

\* the close button of the header is clicked
CloseButton ==
  /\ mounted /\ open
  /\ calls' = <<CloseCall(onClose)>>
  /\ UiFrame

\* a rendered result row is clicked
ResultClick(type, slug) ==
  /\ mounted /\ open
  /\ \E k \in 1..Len(Rows(type, Render(query, loading, error, results))) :
       Rows(type, Render(query, loading, error, results))[k] = slug
  /\ calls' = handleResultClick(type, slug, onClose)
  /\ UiFrame

\* the owner re-renders the component with another close callback
ChangeOnClose(cb) ==
  /\ mounted
  /\ cb # onClose
  /\ onClose' = cb
  /\ listeners' = EscapeChanged(listeners, open, onClose, open, cb)
  /\ calls' = <<>>
  /\ UNCHANGED <<mounted, open, query, loading, results, error,
                 debounceTimeout, timers, cycles>>

Slugs == {"shoes", "sneaker-42"}

Next ==
  \/ Open
  \/ Close
  \/ \E q \in Queries : SetQuery(q)
  \/ Tick
  \/ \E t \in timers : TimerFires(t)
  \/ \E i \in 1..MaxCycles : \E body \in CategoryBodies : CategoryResponds(i, TRUE, body)
  \/ \E i \in 1..MaxCycles : CategoryResponds(i, FALSE, PendingCat.body)
  \/ \E i \in 1..MaxCycles : \E body \in ProductBodies : ProductResponds(i, TRUE, body)
  \/ \E i \in 1..MaxCycles : ProductResponds(i, FALSE, PendingProd.body)
  \/ Unmount

Spec == Init /\ [][Next]_vars

\* the same component with the events that reach the owner's callbacks (they
\* change no state of the component) and an owner that replaces the close
\* callback
NextProps ==
  \/ Next
  \/ \E key \in Keys : KeyDown(key)
  \/ CloseButton
  \/ \E type \in {"category", "product"} : \E slug \in Slugs : ResultClick(type, slug)
  \/ \E cb \in Callbacks : ChangeOnClose(cb)

PropsSpec == Init /\ [][NextProps]_vars

FairSpec == Spec /\ WF_vars(Tick) /\ WF_vars(\E t \in timers : TimerFires(t))

TypeOK ==
  /\ mounted \in BOOLEAN /\ open \in BOOLEAN /\ loading \in BOOLEAN
  /\ query \in Queries
  /\ error \in {"", SearchFailed}
  /\ debounceTimeout \in Nat
  /\ Len(cycles) <= MaxCycles

(* ----------------------- definitions for the claims ------------------- *)
\* a query made of whitespace only (or of nothing)
IsBlank(q) == \A k \in 1..Len(q) : q[k] = " "

\* a fetch cycle is issued in this step
Issues == Len(cycles') = Len(cycles) + 1

Issued == cycles'[Len(cycles')]

\* Promise.all of cycle i settles in this step with the given outcome
Settles(i, how) ==
  /\ i \in 1..Len(cycles)
  /\ cycles[i].outcome = "pending"
  /\ cycles'[i].outcome = how

PairOf(c) == [categories |-> CategoriesOf(c.cat.body), products |-> ProductsOf(c.prod.body)]

(* C1: every pending timer was scheduled for the current query, and when   *)
(* a timer fires both lookups it issues carry the query current at that    *)
(* instant; after three rapid mutations one fetch cycle is issued.         *)
C1_OnlyCurrentQueryFires ==
  /\ [](\A t \in timers : t.q = query)
  /\ [][Issues => /\ Issued.catUrl.q = encodeURIComponent(query)
                  /\ Issued.prodUrl.q = encodeURIComponent(query)]_vars

C1_Witness ==
  /\ debounceTimeout = 2
  /\ Len(cycles) = 1
  /\ timers = {}
  /\ ~IsBlank(query)
  /\ cycles[1].catUrl.q = encodeURIComponent(query)

(* C2: at most one debounce timer is pending, and a mutation to a          *)
(* non-blank query leaves exactly the newly armed timer pending.           *)
C2_AtMostOnePendingTimer ==
  /\ [](Cardinality(timers) <= 1)
  /\ [][debounceTimeout' # debounceTimeout =>
          timers' = {[id |-> debounceTimeout', q |-> query', elapsed |-> 0]}]_vars

C2_Witness ==
  /\ debounceTimeout = 2
  /\ timers = {[id |-> 2, q |-> query, elapsed |-> 0]}

(* C3: lookups are issued only by a timer that has waited the full delay   *)
(* since the last mutation, as exactly one pair (category lookup and       *)
(* product lookup with limit 10) carrying the current query; a pending     *)
(* timer goes away only by firing or by a mutation, close or unmount; and  *)
(* a pending timer eventually goes away or is replaced by a newer one      *)
(* (every arming stores a handle different from the previous one).         *)
C3_PauseIssuesOnePair ==
  /\ [][Len(cycles') # Len(cycles) =>
          /\ \E t \in timers : t.elapsed >= DebounceDelay /\ t.q = query
          /\ ~IsBlank(query)
          /\ Issues
          /\ Issued.catUrl = [path |-> "/api/category/search",
                              q |-> encodeURIComponent(query)]
          /\ Issued.prodUrl = [path |-> "/api/product/search",
                               q |-> encodeURIComponent(query), limit |-> 10]
          /\ Issued.outcome = "pending"]_vars
  /\ [][(timers # {} /\ timers' = {}) =>
          (Issues \/ query' # query \/ ~open' \/ ~mounted')]_vars
  /\ \A h \in 1..2 :
       (timers # {} /\ debounceTimeout = h) ~> (timers = {} \/ debounceTimeout # h)

C3_Witness ==
  /\ debounceTimeout = 1
  /\ Len(cycles) = 1
  /\ timers = {}
  /\ cycles[1].prodUrl = [path |-> "/api/product/search",
                          q |-> encodeURIComponent(query), limit |-> 10]

(* C4: when the query becomes blank, results and error are cleared at      *)
(* once, no timer is pending or armed, and no lookup ever carries a blank  *)
(* query.                                                                  *)
C4_BlankQueryClears ==
  /\ [][(query' # query /\ IsBlank(query')) =>
          /\ results' = EmptyResults
          /\ error' = ""
          /\ timers' = {}
          /\ debounceTimeout' = debounceTimeout]_vars
  /\ [](\A i \in 1..Len(cycles) : \A q \in Queries :
          IsBlank(q) => /\ cycles[i].catUrl.q # encodeURIComponent(q)
                        /\ cycles[i].prodUrl.q # encodeURIComponent(q))

C4_Witness ==
  /\ query = <<" ">>
  /\ results = EmptyResults
  /\ error = ""
  /\ timers = {}
  /\ \E i \in 1..Len(cycles) :
       cycles[i].outcome = "ok" /\ PairOf(cycles[i]) # EmptyResults

(* C5: when a fetch cycle of the mounted component fails, error becomes    *)
(* "Search failed.", loading becomes false and results keep their value;   *)
(* loading is cleared on every exit of the fetch attempt.                  *)
C5_FailureKeepsResults ==
  [][\A i \in 1..Len(cycles) :
       /\ (Settles(i, "fail") /\ mounted) =>
            (error' = "Search failed." /\ ~loading' /\ results' = results)
       /\ ((Settles(i, "fail") \/ Settles(i, "ok")) /\ mounted) => ~loading']_vars

C5_Witness ==
  /\ mounted
  /\ error = "Search failed."
  /\ ~loading
  /\ results # EmptyResults
  /\ cycles # <<>>
  /\ cycles[Len(cycles)].outcome = "fail"
  /\ cycles[Len(cycles)].prod.st = "fail"

(* C6: when both lookups of a fetch cycle of the mounted component         *)
(* succeed, results become exactly that cycle's pair and loading false.    *)
C6_SuccessReplacesResults ==
  [][\A i \in 1..Len(cycles) :
       (Settles(i, "ok") /\ mounted) =>
         (results' = PairOf(cycles'[i]) /\ ~loading')]_vars

C6_Witness ==
  /\ Len(cycles) = 2
  /\ cycles[1].outcome = "ok"
  /\ cycles[2].outcome = "ok"
  /\ PairOf(cycles[1]).categories # PairOf(cycles[2]).categories
  /\ PairOf(cycles[1]).products # PairOf(cycles[2]).products
  /\ PairOf(cycles[1]) # EmptyResults
  /\ results = PairOf(cycles[2])
  /\ ~loading

(* C7: whenever the query becomes empty or the overlay closes, loading is  *)
(* false, error is "" and results are empty.                               *)
C7_AnyStateToIdle ==
  [][((query' # query /\ query' = <<>>) \/ (open /\ ~open')) =>
       (~loading' /\ error' = "" /\ results' = EmptyResults)]_vars

(* C8: when the overlay goes from open to closed, query, results and       *)
(* error are reset.                                                        *)
C8_CloseResets ==
  [][(open /\ ~open') =>
       (query' = <<>> /\ results' = EmptyResults /\ error' = "")]_vars

C8_Witness ==
  /\ ~open
  /\ query = <<>>
  /\ results = EmptyResults
  /\ error = ""
  /\ \E i \in 1..Len(cycles) : cycles[i].outcome = "fail"
  /\ \E i \in 1..Len(cycles) :
       cycles[i].outcome = "ok" /\ PairOf(cycles[i]) # EmptyResults

(* C9: closing the overlay leaves no timer pending, and no lookup is       *)
(* issued while the overlay is closed or the query is blank.               *)
C9_CloseCancelsTimer ==
  /\ [][(open /\ ~open') => timers' = {}]_vars
  /\ [][(~open \/ IsBlank(query)) => Len(cycles') = Len(cycles)]_vars

C9_Witness ==
  /\ mounted
  /\ ~open
  /\ loading
  /\ debounceTimeout = 1
  /\ timers = {}
  /\ cycles = <<>>

(* C10: while the overlay is closed, results are empty and error is "".    *)
C10_ClosedStaysEmpty ==
  ~open => (results = EmptyResults /\ error = "")

\* the route a row of the given kind and slug stands for
RouteOf(type, slug) ==
  IF type = "category"
  THEN (IF slug = "shoes" THEN "/category/shoes" ELSE "/category/sneaker-42")
  ELSE (IF slug = "shoes" THEN "/product/shoes" ELSE "/product/sneaker-42")

\* a row of the given kind and slug is on screen
RowShown(type, slug) ==
  /\ mounted /\ open
  /\ query # <<>> /\ ~loading /\ error = ""
  /\ LET list == IF type = "category" THEN results.categories ELSE results.products
     IN \E k \in 1..Len(list) : list[k] = slug

(* C11: the router is called only by the click of a row that is on screen, *)
(* exactly once, right after one call of the current close callback, with  *)
(* /category/{slug} for a category row and /product/{slug} for a product   *)
(* row; every other step calls the router zero times.                      *)
C11_CloseThenNavigate ==
  [][(\E k \in 1..Len(calls') : calls'[k].fn = "navigate") =>
       \E type \in {"category", "product"} : \E slug \in Slugs :
         /\ RowShown(type, slug)
         /\ calls' = <<[fn |-> "onClose", cb |-> onClose, path |-> ""],
                       [fn |-> "navigate", cb |-> "", path |-> RouteOf(type, slug)]>>
         /\ UNCHANGED <<open, query, loading, results, error>>]_vars

C11_Witness ==
  /\ RowShown("category", "shoes")
  /\ calls = <<[fn |-> "onClose", cb |-> onClose, path |-> ""],
               [fn |-> "navigate", cb |-> "", path |-> "/category/shoes"]>>

(* C12: under any toggling of open and replacement of the close callback,  *)
(* the document holds exactly one escape listener while the overlay is     *)
(* open (capturing the current callback) and none otherwise; a step that   *)
(* calls the close callback without navigating happens only while open and *)
(* calls the current callback exactly once.                                *)
C12_ListenerIffOpen ==
  /\ [](listeners = IF mounted /\ open THEN <<onClose>> ELSE <<>>)
  /\ [][(calls' # <<>> /\ \A k \in 1..Len(calls') : calls'[k].fn # "navigate") =>
          (open /\ calls' = <<[fn |-> "onClose", cb |-> onClose, path |-> ""]>>)]_vars
  /\ [][~open => calls' = <<>>]_vars

C12_Witness ==
  /\ mounted /\ open
  /\ onClose = "close2"
  /\ listeners = <<"close2">>
  /\ calls = <<[fn |-> "onClose", cb |-> "close2", path |-> ""]>>
  /\ cycles # <<>>

(* C13: with the overlay open, the result area shows nothing for an empty  *)
(* query, else only the spinner while loading, else only the error text    *)
(* when there is one, else the Categories group iff categories is          *)
(* non-empty, the Products group iff products is non-empty and the         *)
(* no-results message (for the literal query) iff both are empty.          *)
C13_RenderCases ==
  (mounted /\ open) =>
    LET v == Render(query, loading, error, results)
        shown == {x \in {"spinner", "error", "groups"} :
                    \/ (x = "spinner" /\ v.spinner)
                    \/ (x = "error" /\ v.errorText # "")
                    \/ (x = "groups" /\ (v.categoriesGroup \/ v.productsGroup \/ v.noResults))}
    IN /\ Cardinality(shown) <= 1
       /\ v.area = (query # <<>>)
       /\ query = <<>> => shown = {}
       /\ (query # <<>> /\ loading) => shown = {"spinner"}
       /\ (query # <<>> /\ ~loading /\ error # "") =>
            (shown = {"error"} /\ v.errorText = error)
       /\ (query # <<>> /\ ~loading /\ error = "") =>
            /\ shown = {"groups"}
            /\ v.categoriesGroup = (results.categories # <<>>)
            /\ v.productsGroup = (results.products # <<>>)
            /\ v.categoryRows = results.categories
            /\ v.productRows = results.products
            /\ v.noResults = (results.categories = <<>> /\ results.products = <<>>)
            /\ v.noResults => v.noResultsFor = query

C13_Witness ==
  /\ mounted /\ open
  /\ query = <<"a">>
  /\ \E i \in 1..Len(cycles) : cycles[i].outcome = "ok" /\ cycles[i].catUrl.q = <<"a">>
  /\ Render(query, loading, error, results).noResults
  /\ Render(query, loading, error, results).noResultsFor = <<"a">>

\* one lookup of a cycle responds in this step
Responds ==
  /\ Len(cycles') = Len(cycles)
  /\ cycles' # cycles

(* C14: results change only to empty or, at the successful completion of   *)
(* a fetch cycle, to that cycle's pair; every successful completion of the *)
(* mounted component stores its pair, whatever the order of issue; a       *)
(* failed completion leaves results as they are.                           *)
C14_ResultsFromLastSuccess ==
  /\ [][results' # results =>
          \/ results' = EmptyResults
          \/ \E i \in 1..Len(cycles) : Settles(i, "ok") /\ results' = PairOf(cycles'[i])]_vars
  /\ [][\A i \in 1..Len(cycles) :
          (Settles(i, "ok") /\ mounted) => results' = PairOf(cycles'[i])]_vars
  /\ [][\A i \in 1..Len(cycles) : Settles(i, "fail") => results' = results]_vars

C14_Witness ==
  /\ mounted
  /\ Len(cycles) = 2
  /\ cycles[1].outcome = "ok"
  /\ cycles[2].outcome = "fail"
  /\ results = PairOf(cycles[1])
  /\ results.categories # <<>>
  /\ results.products # <<>>

(* C15: a fetch cycle that completes successfully after a later-issued     *)
(* cycle has already completed still stores its pair and clears loading,   *)
(* and leaves the query alone: results of a superseded query end up shown. *)
C15_LateResponseOverwrites ==
  [][\A i \in 1..Len(cycles) :
       (/\ Settles(i, "ok") /\ mounted
        /\ \E j \in (i + 1)..Len(cycles) : cycles[j].outcome = "ok") =>
         (results' = PairOf(cycles'[i]) /\ ~loading' /\ query' = query)]_vars

C15_Witness ==
  /\ mounted /\ open
  /\ Len(cycles) >= 2
  /\ cycles[1].outcome = "ok"
  /\ cycles[2].outcome = "ok"
  /\ cycles[2].catUrl.q = encodeURIComponent(query)
  /\ cycles[1].catUrl.q # cycles[2].catUrl.q
  /\ PairOf(cycles[1]) # EmptyResults
  /\ PairOf(cycles[1]) # PairOf(cycles[2])
  /\ results = PairOf(cycles[1])
  /\ ~loading
  /\ Render(query, loading, error, results).categoriesGroup

(* C16 as stated: whenever a fetch cycle updates the state, neither of its *)
(* two lookups is outstanding any more.                                    *)
C16_JoinedBeforeUpdate ==
  [][\A i \in 1..Len(cycles) :
       (Settles(i, "ok") \/ Settles(i, "fail")) =>
         ~(cycles[i].cat.st = "pending" /\ cycles[i].prod.st = "pending")]_vars

(* C16 as amended: a fetch cycle updates results, error or loading only    *)
(* when its Promise.all settles; it settles successfully only once both    *)
(* lookups have succeeded, it settles as failed at the first lookup that   *)
(* fails (the other one may still be outstanding), and it settles once.    *)
C16_JoinFailFast ==
  /\ [][\A i \in 1..Len(cycles) :
          Settles(i, "ok") =>
            /\ cycles'[i].cat.st = "ok" /\ cycles'[i].prod.st = "ok"
            /\ (cycles[i].cat.st = "ok" \/ cycles[i].prod.st = "ok")]_vars
  /\ [][\A i \in 1..Len(cycles) :
          Settles(i, "fail") =>
            (cycles'[i].cat.st = "fail" \/ cycles'[i].prod.st = "fail")]_vars
  /\ [][(Responds /\ \A i \in 1..Len(cycles) : cycles'[i].outcome = cycles[i].outcome) =>
          UNCHANGED <<results, error, loading>>]_vars
  /\ [][\A i \in 1..Len(cycles) :
          cycles[i].outcome # "pending" => cycles'[i] = cycles[i]]_vars

C16_Witness ==
  /\ mounted
  /\ error = "Search failed."
  /\ ~loading
  /\ \E i \in 1..Len(cycles) :
       /\ cycles[i].outcome = "fail"
       /\ cycles[i].cat.st = "fail"
       /\ cycles[i].prod.st = "dropped"
  /\ \E i \in 1..Len(cycles) : cycles[i].outcome = "ok"

(* C17: while a debounce timer is pending, or the fetch cycle issued for   *)
(* the current query is in flight, loading is true.                        *)
C17_LoadingCoversPending ==
  (/\ mounted
   /\ \/ timers # {}
      \/ \E i \in 1..Len(cycles) :
           /\ cycles[i].outcome = "pending"
           /\ cycles[i].catUrl.q = encodeURIComponent(query)) => loading

(* C18: when the last fetch cycle issued is the one of the current query   *)
(* (no timer is pending, so the query has not changed since it was issued) *)
(* and it has completed successfully, error is "".                         *)
C18_SuccessNotMasked ==
  (/\ mounted
   /\ cycles # <<>>
   /\ timers = {}
   /\ ~IsBlank(query)
   /\ cycles[Len(cycles)].outcome = "ok"
   /\ cycles[Len(cycles)].catUrl.q = encodeURIComponent(query)) => error = ""
====
